---- MODULE Spec2Model ----
(***************************************************************************)
(* Model of dens::registry (include/dens/registry.hpp): the entity record  *)
(* table, the archetype map and the operations make_entity, attach,        *)
(* detach, destroy, rename, clear and view; and of dens::system_group      *)
(* (include/dens/system_group.hpp, include/dens/system.hpp): its entries   *)
(* and the dispatch of one update.                                         *)
(*                                                                         *)
(* include/dens/detail/archetype.hpp (sign_t, archetype, archetype_map) is *)
(* modelled from the specification's sections 3 and 4.1-4.4.               *)
(*                                                                         *)
(* Row indices are 0-based as in the code; At(s, i) reads s[i + 1].        *)
(* A pointer to an archetype is modelled as {id} (the key of the archetype *)
(* in the map, whose elements have stable addresses), nullptr as {}.       *)
(* assert() is compiled out (NDEBUG): a failed assert has no successor     *)
(* state in a debug build, so the release behaviour covers every state a   *)
(* build can produce.                                                      *)
(***************************************************************************)
EXTENDS Integers, Sequences, FiniteSets, TLC

\* ---------------------------------------------------------------- bounds
\* the registry issues at most MaxId entity ids
MaxId == 2
\* the orders systems are attached with are 0..MaxOrder
MaxOrder == 1

\* ------------------------------------------------------------- constants
null_id == 0
\* registry::m_id of the modelled registry (first registry of the process)
m_id == 1
\* the id of some other registry of the process
other_id == 2
s_name_prefix == "entity_"

\* the component types the program attaches, by their sign_t token
Types == {1, 2}
\* a registered component type the program queries and detaches but never attaches
Unused == 3
AllTypes == Types \cup {Unused}
\* component values; T{} is DefaultValue
Values == {0, 1}
DefaultValue == 0
\* what a read through std::vector::at yields when the index is out of range
\* (it throws std::out_of_range): no component value
OutOfRange == -1
\* names a caller passes to make_entity / rename ("" is the empty string)
Names == {"", "n"}

nullptr == {}
Ptr(id) == {id}
Deref(p) == CHOOSE id \in p : TRUE

At(s, i) == s[i + 1]
Back(s) == s[Len(s)]
PopBack(s) == SubSeq(s, 1, Len(s) - 1)
Range(s) == {s[i] : i \in 1..Len(s)}

\* struct entity {id, registry_id}
Entity(id, rid) == [id |-> id, registry_id |-> rid]

VARIABLES
    m_map,      \* archetype_map::m_map : archetype id -> archetype
    m_records,  \* entity -> record {name, arch, index}
    m_next_id   \* last entity id issued

\* system_group<Data> and the caller of its update
VARIABLES
    m_entries,  \* sign of S -> entry_t {sys, order}; sys.m_data is system::m_data of S
    m_data,     \* system::m_data of the group itself
    arg,        \* the Data object the caller passes to update
    sorted,     \* update's vector of entry pointers, in dispatch order
    calls,      \* the systems update has invoked, with the data each was passed
    pc          \* "idle", "dispatch" (in update's loop), "in_system", "returned"

rvars == <<m_map, m_records, m_next_id>>
gvars == <<m_entries, m_data, arg, sorted, calls, pc>>
vars == <<rvars, gvars>>

\* ------------------------------------------------- detail/archetype.hpp
\* archetype::id_t : the signs of an archetype, sorted by value
RECURSIVE SortSigns(_)
SortSigns(s) ==
    IF s = <<>> THEN <<>>
    ELSE LET m == CHOOSE x \in Range(s) : \A y \in Range(s) : x <= y
             i == CHOOSE k \in 1..Len(s) : s[k] = m
         IN <<m>> \o SortSigns(SubSeq(s, 1, i - 1) \o SubSeq(s, i + 1, Len(s)))

\* id_t::make(span<sign_t const>)
MakeId(signs) == SortSigns(signs)

\* id with sign s added (no-op when present)
IdInsert(id, s) == IF s \in Range(id) THEN id ELSE SortSigns(Append(id, s))

\* id_t::make(sign_t) : id with sign s removed (no-op when absent)
IdRemove(id, s) == SelectSeq(id, LAMBDA x : x # s)

\* a new archetype: no rows, one empty column per sign of id
NewArchetype(id) == [entities |-> <<>>, columns |-> [t \in Range(id) |-> <<>>]]

\* archetype::size / empty / is_last
ArchSize(a) == Len(a.entities)
ArchIsLast(a, index) == index = ArchSize(a) - 1

\* archetype::find<T> : the column of T, if any
ArchFind(a, T) == T \in DOMAIN a.columns

\* archetype::has_all / has_any
ArchHasAll(a, signs) == signs \subseteq DOMAIN a.columns
ArchHasAny(a, signs) == signs \cap DOMAIN a.columns # {}

\* archetype::push_back(entity) : a row for e, columns untouched
ArchPushBack(a, e) == [a EXCEPT !.entities = Append(@, e)]

\* archetype::emplace_back<T>(t) : append t to T's column
ArchEmplaceBack(a, T, v) == [a EXCEPT !.columns[T] = Append(@, v)]

SwapSeq(s, i, j) == [s EXCEPT ![i] = s[j], ![j] = s[i]]

\* archetype::swap_back(index) : swap row index with the last row
ArchSwapBack(a, index) ==
    [entities |-> SwapSeq(a.entities, index + 1, Len(a.entities)),
     columns |-> [t \in DOMAIN a.columns |->
                    SwapSeq(a.columns[t], index + 1, Len(a.columns[t]))]]

\* the entity swap_back returns: the one that was in the last row
ArchSwapBackDisplaced(a) == Back(a.entities)

\* archetype::pop_back : drop the last row
ArchPopBack(a) ==
    [entities |-> PopBack(a.entities),
     columns |-> [t \in DOMAIN a.columns |-> PopBack(a.columns[t])]]

\* archetype_map::get_or_make(id) : the map with an archetype for id
MapGetOrMake(map, id) ==
    IF id \in DOMAIN map THEN map
    ELSE [k \in DOMAIN map \cup {id} |-> IF k = id THEN NewArchetype(id) ELSE map[k]]

\* archetype::migrate_back(archetype* out) on the archetype src of map:
\* every column's last element moves to out's column of the same sign, or
\* is dropped; the entity moves to out's rows; the last row of src is popped
MigrateBackAppend(map, src, out) ==
    IF out = nullptr THEN map
    ELSE LET o == Deref(out)
             a == map[src]
         IN [map EXCEPT ![o] =
               [entities |-> Append(@.entities, Back(a.entities)),
                columns |-> [t \in DOMAIN @.columns |->
                    IF t \in DOMAIN a.columns
                    THEN Append(@.columns[t], Back(a.columns[t]))
                    ELSE @.columns[t]]]]

MigrateBack(map, src, out) ==
    LET appended == MigrateBackAppend(map, src, out)
    IN [appended EXCEPT ![src] = ArchPopBack(@)]

\* ------------------------------------------------------------ registry
\* registry::record
Record(name, arch, index) == [name |-> name, arch |-> arch, index |-> index]

\* std::to_string of an entity id
ToStr(n) == ToString(n)

\* registry::make_name
make_name(id) == s_name_prefix \o ToStr(id)

\* the state a private member function works on
St(map, records) == [map |-> map, records |-> records]

Cur == St(m_map, m_records)

\* m_records[e] : operator[] default-constructs a missing record
RecordsIndex(records, e) ==
    IF e \in DOMAIN records THEN records
    ELSE [k \in DOMAIN records \cup {e} |->
            IF k = e THEN Record("", nullptr, 0) ELSE records[k]]

\* registry::get_or_make
get_or_make(records, e) == RecordsIndex(records, e)

\* send_to_back without the reindexing of the displaced entity (line 310)
send_to_back_noreindex(s, e) ==
    LET r == s.records[e]
        id == Deref(r.arch)
        a == s.map[id]
    IN IF ~ArchIsLast(a, r.index)
       THEN St([s.map EXCEPT ![id] = ArchSwapBack(a, r.index)], s.records)
       ELSE s

\* registry::send_to_back(r), r the record of e
send_to_back(s, e) ==
    LET r == s.records[e]
        id == Deref(r.arch)
        a == s.map[id]
    IN IF ~ArchIsLast(a, r.index)
       THEN LET displaced == ArchSwapBackDisplaced(a)
                recs == RecordsIndex(s.records, displaced)
            IN St([s.map EXCEPT ![id] = ArchSwapBack(a, r.index)],
                  [recs EXCEPT ![displaced].index = r.index])
       ELSE s

\* migrate_to without send_to_back (line 297): it migrates the last row
migrate_to_nosend(s, e, out_arch) ==
    LET src == Deref(s.records[e].arch)
    IN St(MigrateBack(s.map, src, out_arch),
          [s.records EXCEPT ![e].arch = out_arch])

\* registry::migrate_to(out_record, out_arch), out_record the record of e
migrate_to(s, e, out_arch) ==
    LET s1 == send_to_back(s, e)
        src == Deref(s1.records[e].arch)
    IN St(MigrateBack(s1.map, src, out_arch),
          [s1.records EXCEPT ![e].arch = out_arch])

\* registry::emplace_back<T>(r, arch), r the record of e
emplace_back(s, e, T, id) ==
    St([s.map EXCEPT ![id] = ArchEmplaceBack(@, T, DefaultValue)],
       [s.records EXCEPT ![e].arch = Ptr(id),
                         ![e].index = Len(s.map[id].columns[T])])

RECURSIVE emplace_back_all(_, _, _, _)
emplace_back_all(s, e, ts, id) ==
    IF ts = <<>> THEN s
    ELSE emplace_back_all(emplace_back(s, e, Head(ts), id), e, Tail(ts), id)

\* registry::make_entity<Types...>(name), id the id it issues
make_entity(s, id, ts, name) ==
    LET e == Entity(id, m_id)
        nm == IF name = "" THEN make_name(id) ELSE name
        recs == IF e \in DOMAIN s.records THEN s.records
                ELSE [k \in DOMAIN s.records \cup {e} |->
                        IF k = e THEN Record(nm, nullptr, 0) ELSE s.records[k]]
    IN IF Len(ts) > 0
       THEN LET aid == MakeId(ts)
                map1 == MapGetOrMake(s.map, aid)
                map2 == [map1 EXCEPT ![aid] = ArchPushBack(@, e)]
            IN emplace_back_all(St(map2, recs), e, ts, aid)
       ELSE St(s.map, recs)

\* destroy that erases the record and leaves the components (no line 185)
destroy_erase_only(s, e) ==
    IF e \in DOMAIN s.records
    THEN [map |-> s.map,
          records |-> [k \in DOMAIN s.records \ {e} |-> s.records[k]],
          ret |-> TRUE]
    ELSE [map |-> s.map, records |-> s.records, ret |-> FALSE]

\* destroy that drops the components and keeps the record (no line 186)
destroy_keep_record(s, e) ==
    IF e \in DOMAIN s.records
    THEN LET s1 == IF s.records[e].arch # nullptr THEN migrate_to(s, e, nullptr) ELSE s
         IN [map |-> s1.map, records |-> s1.records, ret |-> TRUE]
    ELSE [map |-> s.map, records |-> s.records, ret |-> FALSE]

\* destroy that also erases the archetype it emptied
destroy_prune(s, e) ==
    IF e \in DOMAIN s.records
    THEN LET s1 == IF s.records[e].arch # nullptr THEN migrate_to(s, e, nullptr) ELSE s
             keep == {id \in DOMAIN s1.map : ArchSize(s1.map[id]) > 0}
         IN [map |-> [id \in keep |-> s1.map[id]],
             records |-> [k \in DOMAIN s1.records \ {e} |-> s1.records[k]],
             ret |-> TRUE]
    ELSE [map |-> s.map, records |-> s.records, ret |-> FALSE]

\* registry::destroy
destroy(s, e) ==
    IF e \in DOMAIN s.records
    THEN LET s1 == IF s.records[e].arch # nullptr THEN migrate_to(s, e, nullptr) ELSE s
         IN [map |-> s1.map,
             records |-> [k \in DOMAIN s1.records \ {e} |-> s1.records[k]],
             ret |-> TRUE]
    ELSE [map |-> s.map, records |-> s.records, ret |-> FALSE]

\* rename that inserts a record for an unknown handle (m_records[e])
rename_creates(s, e, name) ==
    [map |-> s.map,
     records |-> [RecordsIndex(s.records, e) EXCEPT ![e].name = name],
     ret |-> TRUE]

\* registry::rename
rename(s, e, name) ==
    IF e \in DOMAIN s.records
    THEN [map |-> s.map, records |-> [s.records EXCEPT ![e].name = name], ret |-> TRUE]
    ELSE [map |-> s.map, records |-> s.records, ret |-> FALSE]

\* registry::clear
clear(s) == St(<<>>, <<>>)

\* attach that assigns to the last row instead of the record's row
attach_assign_back(s, e, T, t) ==
    LET rec == s.records[e]
        aid == Deref(rec.arch)
    IN St([s.map EXCEPT ![aid].columns[T][Len(s.map[aid].columns[T])] = t], s.records)

\* attach, lines 211-214: component T already exists, move assign
attach_assign(s, e, T, t) ==
    LET rec == s.records[e]
    IN St([s.map EXCEPT ![Deref(rec.arch)].columns[T][rec.index + 1] = t], s.records)

\* attach that migrates to an id with T appended in call order
attach_migrate_unsorted(s, e, T) ==
    LET target == Append(Deref(s.records[e].arch), T)
    IN migrate_to(St(MapGetOrMake(s.map, target), s.records), e, Ptr(target))

\* attach, line 217: migrate record to archetype with existing components + T
attach_migrate(s, e, T) ==
    LET target == IdInsert(Deref(s.records[e].arch), T)
    IN migrate_to(St(MapGetOrMake(s.map, target), s.records), e, Ptr(target))

\* attach without the push_back of the entity (line 221)
attach_first_nopush(s, e, T) ==
    LET target == MakeId(<<T>>)
        map1 == MapGetOrMake(s.map, target)
    IN St(map1, [s.records EXCEPT ![e].arch = Ptr(target)])

\* attach, lines 220-221: no existing components, use archetype with only T
attach_first(s, e, T) ==
    LET target == MakeId(<<T>>)
        map1 == MapGetOrMake(s.map, target)
    IN St([map1 EXCEPT ![target] = ArchPushBack(@, e)],
          [s.records EXCEPT ![e].arch = Ptr(target)])

\* attach that pushes the new T and leaves the record's index (no line 228)
attach_push_noindex(s, e, T, t) ==
    LET aid == Deref(s.records[e].arch)
    IN St([s.map EXCEPT ![aid] = ArchEmplaceBack(@, T, t)], s.records)

\* attach, lines 225-228: push new T instance, update record index
attach_push(s, e, T, t) ==
    LET aid == Deref(s.records[e].arch)
        map1 == [s.map EXCEPT ![aid] = ArchEmplaceBack(@, T, t)]
    IN St(map1, [s.records EXCEPT ![e].index = Len(map1[aid].columns[T]) - 1])

\* registry::attach<T>(e, t)
attach(s, e, T, t) ==
    LET s0 == St(s.map, get_or_make(s.records, e))
        rec == s0.records[e]
    IN IF rec.arch # nullptr /\ ArchFind(s0.map[Deref(rec.arch)], T)
       THEN attach_assign(s0, e, T, t)
       ELSE IF rec.arch # nullptr
       THEN attach_push(attach_migrate(s0, e, T), e, T, t)
       ELSE attach_push(attach_first(s0, e, T), e, T, t)

\* do_detach that reindexes the detached entity instead of the swapped one
detach_swap_wrongrecord(s, e) ==
    LET rec == s.records[e]
        aid == Deref(rec.arch)
        a == s.map[aid]
    IN IF ~ArchIsLast(a, rec.index)
       THEN St([s.map EXCEPT ![aid] = ArchSwapBack(a, rec.index)],
               [s.records EXCEPT ![e].index = ArchSize(a) - 1])
       ELSE s

\* do_detach, lines 320-323: rotate e's row to the back, reindex the swapped entity
detach_swap(s, e) ==
    LET rec == s.records[e]
        aid == Deref(rec.arch)
        a == s.map[aid]
    IN IF ~ArchIsLast(a, rec.index)
       THEN LET swapped == ArchSwapBackDisplaced(a)
                recs == RecordsIndex(s.records, swapped)
            IN St([s.map EXCEPT ![aid] = ArchSwapBack(a, rec.index)],
                  [recs EXCEPT ![swapped].index = rec.index])
       ELSE s

\* do_detach that pops the row and keeps the record's archetype (no line 326)
detach_last_keeparch(s, e) ==
    LET aid == Deref(s.records[e].arch)
    IN St([s.map EXCEPT ![aid] = ArchPopBack(@)], s.records)

\* do_detach that erases the record with its last component
detach_last_erase(s, e) ==
    LET aid == Deref(s.records[e].arch)
    IN St([s.map EXCEPT ![aid] = ArchPopBack(@)],
          [k \in DOMAIN s.records \ {e} |-> s.records[k]])

\* do_detach, lines 325-326: pop the row, reset the record (rec = {})
detach_last(s, e) ==
    LET aid == Deref(s.records[e].arch)
    IN St([s.map EXCEPT ![aid] = ArchPopBack(@)],
          [s.records EXCEPT ![e] = Record("", nullptr, 0)])

\* do_detach, lines 328-335: migrate the row to the archetype without T
detach_migrate(s, e, T) ==
    LET aid == Deref(s.records[e].arch)
        id == IdRemove(aid, T)
        map1 == MapGetOrMake(s.map, id)
        map2 == MigrateBack(map1, aid, Ptr(id))
    IN St(map2, [s.records EXCEPT ![e].arch = Ptr(id),
                                  ![e].index = ArchSize(map2[id]) - 1])

\* do_detach, lines 316-318: the calls that return false
detach_rejects(s, e, T) ==
    \/ e.registry_id # m_id
    \/ e \notin DOMAIN s.records
    \/ s.records[e].arch = nullptr

\* registry::do_detach<T>
do_detach(s, e, T) ==
    IF detach_rejects(s, e, T)
    THEN [map |-> s.map, records |-> s.records, ret |-> FALSE]
    ELSE LET s1 == detach_swap(s, e)
             s2 == IF Len(Deref(s1.records[e].arch)) = 1
                   THEN detach_last(s1, e)
                   ELSE detach_migrate(s1, e, T)
         IN [map |-> s2.map, records |-> s2.records, ret |-> TRUE]

\* registry::detach<Types...> : (do_detach<Types>(e) && ...)
RECURSIVE detach(_, _, _)
detach(s, e, ts) ==
    IF ts = <<>> THEN [map |-> s.map, records |-> s.records, ret |-> TRUE]
    ELSE LET r == do_detach(s, e, Head(ts))
         IN IF r.ret THEN detach(St(r.map, r.records), e, Tail(ts)) ELSE r

\* registry::contains / size
contains(s, e) == e \in DOMAIN s.records
size(s) == Cardinality(DOMAIN s.records)

\* attached that only tests that the record has an archetype
attached_any_arch(s, e, T) ==
    /\ e \in DOMAIN s.records
    /\ s.records[e].arch # nullptr

\* registry::attached<T>
attached(s, e, T) ==
    /\ e \in DOMAIN s.records
    /\ s.records[e].arch # nullptr
    /\ ArchFind(s.map[Deref(s.records[e].arch)], T)

\* registry::all_attached<Types...>
all_attached(s, e, ts) ==
    /\ e \in DOMAIN s.records
    /\ s.records[e].arch # nullptr
    /\ ArchHasAll(s.map[Deref(s.records[e].arch)], Range(ts))

\* registry::any_attached<Types...>
any_attached(s, e, ts) ==
    /\ e \in DOMAIN s.records
    /\ s.records[e].arch # nullptr
    /\ ArchHasAny(s.map[Deref(s.records[e].arch)], Range(ts))

\* registry::find<T> : {} for a null pointer, else {the value pointed at}
find(s, e, T) ==
    IF e \in DOMAIN s.records /\ s.records[e].arch # nullptr
    THEN LET r == s.records[e]
             a == s.map[Deref(r.arch)]
         IN IF ArchFind(a, T)
            THEN IF r.index < Len(a.columns[T]) THEN {At(a.columns[T], r.index)}
                 ELSE {OutOfRange}
            ELSE {}
    ELSE {}

\* registry::get<T>, where find<T> is not null
get(s, e, T) == CHOOSE v \in find(s, e, T) : TRUE

\* registry::append<T...>(out, arch) : rows 0..size-1 of arch, as entity_views
append(out, arch, req) ==
    out \o [i \in 1..ArchSize(arch) |->
              [entity_ |-> arch.entities[i],
               components |-> [T \in req |-> arch.columns[T][i]]]]

\* view that ignores the exclusion list
RECURSIVE view_loop_noexclude(_, _, _, _, _)
view_loop_noexclude(s, order, req, excl, ret) ==
    IF order = <<>> THEN ret
    ELSE LET arch == s.map[Head(order)]
         IN view_loop_noexclude(s, Tail(order), req, excl,
                      IF ArchHasAll(arch, req) THEN append(ret, arch, req) ELSE ret)

\* registry::view<Types...>(exclude<Exclude...>), the loop over m_map.m_map;
\* order is the order in which the unordered_map yields its archetypes
RECURSIVE view_loop(_, _, _, _, _)
view_loop(s, order, req, excl, ret) ==
    IF order = <<>> THEN ret
    ELSE LET arch == s.map[Head(order)]
         IN view_loop(s, Tail(order), req, excl,
                      IF ArchHasAll(arch, req) /\ ~ArchHasAny(arch, excl)
                      THEN append(ret, arch, req) ELSE ret)

view(s, order, req, excl) == view_loop(s, order, req, excl, <<>>)

\* the iteration orders of an unordered_map with the keys S
Orders(S) == {q \in [1..Cardinality(S) -> S] : Range(q) = S}

\* ---------------------------------------------------------------- inputs
\* type packs: sequences of distinct types
RECURSIVE SeqsOfLen(_, _)
SeqsOfLen(n, T) ==
    IF n = 0 THEN {<<>>}
    ELSE {Append(q, t) : q \in SeqsOfLen(n - 1, T), t \in T}
Distinct(q) == Cardinality(Range(q)) = Len(q)
TypePacks(T) == {q \in UNION {SeqsOfLen(n, T) : n \in 1..2} : Distinct(q)}

\* handles this registry has issued
Issued == {Entity(i, m_id) : i \in 1..m_next_id}
\* a handle of another registry that carries an id this registry has issued
Foreign == {Entity(i, other_id) : i \in 1..m_next_id} \cap {Entity(1, other_id)}
Handles == Issued \cup Foreign

Init ==
    /\ m_map = <<>>
    /\ m_records = <<>>
    /\ m_next_id = 0
    /\ m_entries = <<>>
    /\ m_data = nullptr
    /\ arg = nullptr
    /\ sorted = <<>>
    /\ calls = <<>>
    /\ pc = "idle"

MakeEntity(ts, name) ==
    /\ m_next_id < MaxId
    /\ LET id == m_next_id + 1
           r == make_entity(Cur, id, ts, name)
       IN /\ m_next_id' = id
          /\ m_map' = r.map
          /\ m_records' = r.records
          /\ UNCHANGED gvars

Attach(e, T, t) ==
    LET r == attach(Cur, e, T, t)
    IN /\ m_map' = r.map
       /\ m_records' = r.records
       /\ UNCHANGED <<m_next_id, gvars>>

Detach(e, ts) ==
    LET r == detach(Cur, e, ts)
    IN /\ m_map' = r.map
       /\ m_records' = r.records
       /\ UNCHANGED <<m_next_id, gvars>>

Destroy(e) ==
    LET r == destroy(Cur, e)
    IN /\ m_map' = r.map
       /\ m_records' = r.records
       /\ UNCHANGED <<m_next_id, gvars>>

Rename(e, name) ==
    LET r == rename(Cur, e, name)
    IN /\ m_map' = r.map
       /\ m_records' = r.records
       /\ UNCHANGED <<m_next_id, gvars>>

\* clear that also resets the id counter
Clear_reset ==
    LET r == clear(Cur)
    IN /\ m_map' = r.map
       /\ m_records' = r.records
       /\ m_next_id' = 0
       /\ UNCHANGED gvars

Clear ==
    LET r == clear(Cur)
    IN /\ m_map' = r.map
       /\ m_records' = r.records
       /\ UNCHANGED <<m_next_id, gvars>>

\* the type packs detach is called with
DetachPacks == TypePacks(Types) \cup {<<Unused>>}

\* make_entity, attach, detach, destroy and clear; entities get default names
NextCore ==
    \/ \E ts \in TypePacks(Types) \cup {<<>>} : MakeEntity(ts, "")
    \/ \E e \in Issued, T \in Types, t \in Values : Attach(e, T, t)
    \/ \E e \in Handles, ts \in DetachPacks : Detach(e, ts)
    \/ \E e \in Handles : Destroy(e)
    \/ Clear

SpecCore == Init /\ [][NextCore]_vars

\* every public mutator, rename and caller-chosen names included
Next ==
    \/ \E ts \in TypePacks(Types) \cup {<<>>}, name \in Names : MakeEntity(ts, name)
    \/ \E e \in Issued, T \in Types, t \in Values : Attach(e, T, t)
    \/ \E e \in Handles, ts \in DetachPacks : Detach(e, ts)
    \/ \E e \in Handles : Destroy(e)
    \/ \E e \in Handles, name \in Names \ {""} : Rename(e, name)
    \/ Clear

Spec == Init /\ [][Next]_vars

\* ------------------------------------------------------ system_group.hpp
\* the concrete system types attached to the group, by their sign_t token
Systems == {1, 2, 3}
\* the orders a system is attached with
OrderValues == 0..MaxOrder
\* the Data objects callers pass to update
DataObjects == {1, 2}

\* entry_t {sys, order} of a newly made system: its m_data is null
Entry(order) == [sys |-> [m_data |-> nullptr], order |-> order]

\* system_group::attach<S>(order) : insert_or_assign
group_attach(entries, S, order) ==
    [k \in DOMAIN entries \cup {S} |-> IF k = S THEN Entry(order) ELSE entries[k]]

\* system_group::detach<S>
group_detach(entries, S) == [k \in DOMAIN entries \ {S} |-> entries[k]]

\* system_group::clear / size
group_clear(entries) == <<>>
group_size(entries) == Cardinality(DOMAIN entries)

\* a comparator that orders by descending order
comp_descending(l, r) == l.order > r.order

\* update's comparator: l->order < r->order
comp(l, r) == l.order < r.order

\* the sequences in which a range-for visits the entries of the unordered_map
Iterations(entries) ==
    {q \in SeqsOfLen(group_size(entries), DOMAIN entries) : Distinct(q)}

\* what std::sort can leave: no element is comp-before one that precedes it
StdSort(entries) ==
    {q \in Iterations(entries) :
        \A i \in 1..Len(q), j \in 1..Len(q) :
            i < j => ~comp(entries[q[j]], entries[q[i]])}

\* system_group::update(registry) : the sequences in which it visits the entries
update_order(entries) ==
    IF group_size(entries) < 2 THEN Iterations(entries) ELSE StdSort(entries)

\* system::data() : *m_data; with m_data null the assert is compiled out and
\* the reference read is any object or none
data(p) == IF p # nullptr THEN {p} ELSE {nullptr} \cup {Ptr(d) : d \in DataObjects}

\* no update is in progress
Idle == pc \in {"idle", "returned"}

GroupAttach(S, order) ==
    /\ Idle
    /\ m_entries' = group_attach(m_entries, S, order)
    /\ pc' = "idle" /\ arg' = nullptr /\ calls' = <<>>
    /\ UNCHANGED <<m_data, sorted, rvars>>

GroupDetach(S) ==
    /\ Idle
    /\ m_entries' = group_detach(m_entries, S)
    /\ pc' = "idle" /\ arg' = nullptr /\ calls' = <<>>
    /\ UNCHANGED <<m_data, sorted, rvars>>

GroupClear ==
    /\ Idle
    /\ m_entries' = group_clear(m_entries)
    /\ pc' = "idle" /\ arg' = nullptr /\ calls' = <<>>
    /\ UNCHANGED <<m_data, sorted, rvars>>

\* system::update(reg, data) of the group: m_data = &data, then
\* system_group::update(reg) up to its dispatch loop
UpdateBegin(d) ==
    /\ Idle
    /\ arg' = Ptr(d)
    /\ m_data' = Ptr(d)
    /\ \E q \in update_order(m_entries) : sorted' = q
    /\ calls' = <<>>
    /\ pc' = "dispatch"
    /\ UNCHANGED <<m_entries, rvars>>

\* one iteration of the loop: entry.sys->update(registry, this->data()) sets
\* the system's m_data and enters its update(registry)
SystemEnter ==
    /\ pc = "dispatch"
    /\ Len(calls) < Len(sorted)
    /\ LET S == sorted[Len(calls) + 1]
       IN \E ref \in data(m_data) :
            /\ m_entries' = [m_entries EXCEPT ![S].sys.m_data = ref]
            /\ calls' = Append(calls, [sys |-> S, data |-> ref])
    /\ pc' = "in_system"
    /\ UNCHANGED <<m_data, arg, sorted, rvars>>

\* the system's update(registry) returns: its m_data = {}
SystemReturn ==
    /\ pc = "in_system"
    /\ m_entries' = [m_entries EXCEPT ![Back(calls).sys].sys.m_data = nullptr]
    /\ pc' = "dispatch"
    /\ UNCHANGED <<m_data, arg, sorted, calls, rvars>>

\* the loop is over: system_group::update returns, the group's m_data = {}
UpdateEnd ==
    /\ pc = "dispatch"
    /\ Len(calls) = Len(sorted)
    /\ m_data' = nullptr
    /\ sorted' = <<>>
    /\ pc' = "returned"
    /\ UNCHANGED <<m_entries, arg, calls, rvars>>

NextGroup ==
    \/ \E S \in Systems, order \in OrderValues : GroupAttach(S, order)
    \/ \E S \in Systems : GroupDetach(S)
    \/ GroupClear
    \/ \E d \in DataObjects : UpdateBegin(d)
    \/ SystemEnter
    \/ SystemReturn
    \/ UpdateEnd

SpecGroup == Init /\ [][NextGroup]_vars

\* ------------------------------------------------------------ vocabulary
\* the component types the registry reports as attached to e
TypesOf(s, e) == {T \in AllTypes : attached(s, e, T)}

\* the rows <<archetype id, row>> that store e
RowsOf(s, e) ==
    {x \in (DOMAIN s.map) \X (0..MaxId) :
        x[2] < ArchSize(s.map[x[1]]) /\ At(s.map[x[1]].entities, x[2]) = e}

\* every entity's component set and values are the same in s and r
SameComponents(s, r, f) ==
    /\ f \in DOMAIN r.records
    /\ TypesOf(r, f) = TypesOf(s, f)
    /\ \A U \in TypesOf(s, f) : find(r, f, U) = find(s, f, U)

\* e's row is not the last of its archetype
NotLastRow(s, e) ==
    /\ e \in DOMAIN s.records
    /\ s.records[e].arch # nullptr
    /\ ~ArchIsLast(s.map[Deref(s.records[e].arch)], s.records[e].index)

\* ---------------------------------------------------------------- claims
\* C1 (I2): for every record with an archetype set, that archetype is in the
\* map and stores the record's entity at the record's row index.
C1_RecordRowIsEntity ==
    \A e \in DOMAIN m_records :
        m_records[e].arch # nullptr =>
            /\ Deref(m_records[e].arch) \in DOMAIN m_map
            /\ m_records[e].index < ArchSize(m_map[Deref(m_records[e].arch)])
            /\ At(m_map[Deref(m_records[e].arch)].entities, m_records[e].index) = e

\* C1 witness: a detach, an attach or a destroy of an entity that is not in the
\* last row moves another entity to a new row and its record follows.
C1_Witness ==
    \E e \in DOMAIN m_records, T \in Types :
        /\ NotLastRow(Cur, e)
        /\ \E r \in {detach(Cur, e, <<T>>), attach(Cur, e, T, 1), destroy(Cur, e)} :
             \E f \in DOMAIN m_records \ {e} :
                /\ f \in DOMAIN r.records
                /\ r.records[f].arch = m_records[f].arch
                /\ r.records[f].index # m_records[f].index
                /\ At(r.map[Deref(r.records[f].arch)].entities, r.records[f].index) = f

\* C2: detach<T>(e) returns true iff T was attached to e, and a detach of a
\* type that is not attached changes nothing in the registry.
C2_DetachIffAttached ==
    \A e \in Handles, T \in AllTypes :
        LET r == detach(Cur, e, <<T>>)
        IN /\ r.ret <=> attached(Cur, e, T)
           /\ ~attached(Cur, e, T) => r.map = m_map /\ r.records = m_records

\* C3 (I5): a record has an archetype set iff its entity is stored with at
\* least one component: it occupies a row of an archetype that has a column.
C3_ArchetypeIffComponents ==
    \A e \in Issued :
        /\ (e \in DOMAIN m_records /\ m_records[e].arch # nullptr)
              <=> (\E id \in DOMAIN m_map :
                      e \in Range(m_map[id].entities) /\ DOMAIN m_map[id].columns # {})
        /\ (e \in DOMAIN m_records /\ m_records[e].arch # nullptr)
              <=> TypesOf(Cur, e) # {}

\* C3 witness: the detach of an entity's only component leaves its record
\* without an archetype.
C3_Witness ==
    \E e \in DOMAIN m_records, T \in Types :
        /\ TypesOf(Cur, e) = {T}
        /\ LET r == detach(Cur, e, <<T>>)
           IN r.ret /\ r.records[e].arch = nullptr /\ RowsOf(r, e) = {}

\* C4 (I1): every column of every archetype has as many elements as the
\* archetype has entity rows.
C4_ColumnsMatchRows ==
    \A id \in DOMAIN m_map :
        \A T \in DOMAIN m_map[id].columns :
            Len(m_map[id].columns[T]) = Len(m_map[id].entities)

\* C4 witness: an archetype with two columns and two rows.
C4_Witness ==
    \E id \in DOMAIN m_map :
        /\ Cardinality(DOMAIN m_map[id].columns) = 2
        /\ Len(m_map[id].entities) = 2

\* C5 (I3): every entity stored in an archetype row has a record and is
\* stored in exactly one row; destroy(e) leaves e in no row.
C5_RowsHaveOneRecord ==
    /\ \A id \in DOMAIN m_map :
         \A i \in 1..Len(m_map[id].entities) :
            LET e == m_map[id].entities[i]
            IN e \in DOMAIN m_records /\ Cardinality(RowsOf(Cur, e)) = 1
    /\ \A e \in Handles : RowsOf(destroy(Cur, e), e) = {}

\* C5 witness: an entity with components, stored in a row, whose destroy
\* succeeds.
C5_Witness ==
    \E e \in DOMAIN m_records :
        /\ RowsOf(Cur, e) # {}
        /\ destroy(Cur, e).ret
        /\ e \notin DOMAIN destroy(Cur, e).records

\* C6: swap-remove stability of detach: every other entity keeps its component
\* set and its component values, the displaced entity included.
C6_DetachKeepsOthers ==
    \A e \in Handles, T \in AllTypes :
        LET r == detach(Cur, e, <<T>>)
        IN \A f \in DOMAIN m_records \ {e} : SameComponents(Cur, r, f)

\* C6 witness: detach<T>(e) succeeds with e not in the last row; the entity in
\* the last row holds another value of T, is moved to e's row and keeps it.
C6_Witness ==
    \E e \in DOMAIN m_records, T \in Types :
        /\ attached(Cur, e, T)
        /\ NotLastRow(Cur, e)
        /\ LET r == detach(Cur, e, <<T>>)
               f == ArchSwapBackDisplaced(m_map[Deref(m_records[e].arch)])
           IN /\ r.ret
              /\ f # e
              /\ find(Cur, f, T) # find(Cur, e, T)
              /\ r.records[f].index = m_records[e].index
              /\ r.records[f].index # m_records[f].index
              /\ find(r, f, T) = find(Cur, f, T)

\* C7: destroying an entity that is not in the last row of its archetype
\* shrinks that archetype by exactly one row and leaves every remaining
\* entity's component set and values as they were.
C7_DestroyKeepsOthers ==
    \A e \in DOMAIN m_records :
        NotLastRow(Cur, e) =>
            LET r == destroy(Cur, e)
                aid == Deref(m_records[e].arch)
            IN /\ r.ret
               /\ aid \in DOMAIN r.map
               /\ ArchSize(r.map[aid]) = ArchSize(m_map[aid]) - 1
               /\ \A f \in DOMAIN m_records \ {e} :
                    SameComponents(Cur, St(r.map, r.records), f)

\* C7 witness: an entity in row 0 of an archetype of two rows is destroyed; the
\* other entity holds a different value and is found with it afterwards.
C7_Witness ==
    \E e \in DOMAIN m_records, f \in DOMAIN m_records, T \in Types :
        /\ NotLastRow(Cur, e)
        /\ f # e
        /\ m_records[f].arch = m_records[e].arch
        /\ attached(Cur, e, T)
        /\ find(Cur, f, T) # find(Cur, e, T)
        /\ LET r == destroy(Cur, e)
           IN r.ret /\ find(St(r.map, r.records), f, T) = find(Cur, f, T)

\* C8: attach<T>(e, v) is followed by get<T>(e) == v; when T is already
\* attached the value is overwritten in place: e's archetype and row, the set
\* of archetypes and every archetype's size are unchanged.
C8_AttachThenGet ==
    \A e \in Issued, T \in Types, v \in Values :
        LET r == attach(Cur, e, T, v)
        IN /\ find(r, e, T) = {v}
           /\ attached(Cur, e, T) =>
                /\ r.records[e].arch = m_records[e].arch
                /\ r.records[e].index = m_records[e].index
                /\ DOMAIN r.map = DOMAIN m_map
                /\ \A id \in DOMAIN m_map : ArchSize(r.map[id]) = ArchSize(m_map[id])

\* C8 witness: T is attached to e with one value and attached again with
\* another, in an archetype that e shares with another entity.
C8_Witness ==
    \E e \in DOMAIN m_records, T \in Types, v \in Values :
        /\ attached(Cur, e, T)
        /\ find(Cur, e, T) # {v}
        /\ ArchSize(m_map[Deref(m_records[e].arch)]) > 1
        /\ find(attach(Cur, e, T, v), e, T) = {v}

\* detach<T>(e) for the types of p, one call after the other; ret: all true
RECURSIVE DetachOneByOne(_, _, _)
DetachOneByOne(s, e, p) ==
    IF p = <<>> THEN [map |-> s.map, records |-> s.records, ret |-> TRUE]
    ELSE LET r == detach(s, e, <<Head(p)>>)
             rest == DetachOneByOne(St(r.map, r.records), e, Tail(p))
         IN [map |-> rest.map, records |-> rest.records, ret |-> r.ret /\ rest.ret]

\* C9: round trip: detaching the types of an entity's component set one at a
\* time, in any order, returns true each time and leaves the entity in the
\* registry without an archetype; destroying it then returns true and
\* decreases size() by exactly one.
C9_RoundTrip ==
    \A e \in DOMAIN m_records :
        \A p \in Orders(TypesOf(Cur, e)) :
            LET r == DetachOneByOne(Cur, e, p)
                d == destroy(St(r.map, r.records), e)
            IN /\ r.ret
               /\ contains(r, e)
               /\ r.records[e].arch = nullptr
               /\ RowsOf(r, e) = {}
               /\ d.ret
               /\ size(d) = size(Cur) - 1

\* C9 witness: an entity with two components, in an archetype it shares with
\* another entity; both orders of detaching end without an archetype.
C9_Witness ==
    \E e \in DOMAIN m_records :
        /\ Cardinality(TypesOf(Cur, e)) = 2
        /\ ArchSize(m_map[Deref(m_records[e].arch)]) = 2
        /\ \A p \in Orders(TypesOf(Cur, e)) :
             LET r == DetachOneByOne(Cur, e, p)
             IN r.ret /\ r.records[e].arch = nullptr

\* the required / excluded type lists of a view: at least one required type
ViewQueries ==
    {q \in (SUBSET AllTypes) \X (SUBSET AllTypes) : q[1] # {} /\ q[1] \cap q[2] = {}}

\* the entities a view with the query q has to return
Matching(q) ==
    {e \in DOMAIN m_records :
        q[1] \subseteq TypesOf(Cur, e) /\ q[2] \cap TypesOf(Cur, e) = {}}

FindNonNull(s, e, T) == find(s, e, T) # {} /\ find(s, e, T) # {OutOfRange}

\* C11: for every handle, known or not, and every component type T,
\* find<T>(e) is non-null exactly when attached<T>(e), which is exactly when
\* all_attached<T>(e).
C11_FindIffAttached ==
    \A e \in Handles, T \in AllTypes :
        /\ FindNonNull(Cur, e, T) <=> attached(Cur, e, T)
        /\ attached(Cur, e, T) <=> all_attached(Cur, e, <<T>>)

\* C11 witness: one entity holds T and not U, another handle has no record.
C11_Witness ==
    \E e \in DOMAIN m_records, u \in Issued \ DOMAIN m_records, T \in Types, U \in Types :
        /\ FindNonNull(Cur, e, T) /\ all_attached(Cur, e, <<T>>)
        /\ ~FindNonNull(Cur, e, U) /\ ~attached(Cur, e, U)
        /\ ~FindNonNull(Cur, u, T) /\ ~all_attached(Cur, u, <<T>>)

\* C12: destroy(e) returns true exactly when e had a record; afterwards
\* contains(e) is false, find<T>(e) is null and attached<T>(e) false for every
\* T, size() is one less, and a second destroy(e) returns false and changes
\* nothing.
C12_DestroyRemoves ==
    \A e \in Handles :
        LET r == destroy(Cur, e)
            r2 == destroy(St(r.map, r.records), e)
        IN /\ r.ret <=> contains(Cur, e)
           /\ ~contains(r, e)
           /\ \A T \in AllTypes : find(r, e, T) = {} /\ ~attached(r, e, T)
           /\ r.ret => size(r) = size(Cur) - 1
           /\ ~r.ret => r.map = m_map /\ r.records = m_records
           /\ ~r2.ret /\ r2.map = r.map /\ r2.records = r.records

\* C12 witness: an entity with a component, in an archetype it shares, is
\* destroyed, and a handle without a record is destroyed too.
C12_Witness ==
    \E e \in DOMAIN m_records, u \in Handles \ DOMAIN m_records, T \in Types :
        /\ attached(Cur, e, T)
        /\ ArchSize(m_map[Deref(m_records[e].arch)]) = 2
        /\ destroy(Cur, e).ret
        /\ ~contains(destroy(Cur, e), e)
        /\ ~destroy(Cur, u).ret

\* C13: handles are never reused: no step, clear included, lowers the id
\* counter, and a step that issues a handle gives it a non-null id greater
\* than every id issued before (the ids 1..m_next_id), with a record of its own.
C13_IdsNeverReused ==
    [][/\ m_next_id' >= m_next_id
       /\ m_next_id' # m_next_id =>
            /\ m_next_id' > null_id
            /\ \A i \in 1..m_next_id : m_next_id' > i
            /\ Entity(m_next_id', m_id) \in DOMAIN m_records'
            /\ Entity(m_next_id', m_id) \notin DOMAIN m_records]_vars

\* C13 witness: every record and archetype is gone after an entity was made,
\* and the next make_entity issues the id after the last issued one.
C13_Witness ==
    /\ m_next_id >= 1
    /\ m_records = <<>>
    /\ m_map = <<>>
    /\ DOMAIN make_entity(Cur, m_next_id + 1, <<>>, "").records
         = {Entity(m_next_id + 1, m_id)}

\* C14 as stated: attach, detach and rename never add or remove a record.
C14_OnlyMakeEntityCreates ==
    \A e \in Issued :
        /\ \A T \in Types, t \in Values :
              DOMAIN attach(Cur, e, T, t).records = DOMAIN m_records
        /\ \A ts \in DetachPacks :
              DOMAIN detach(Cur, e, ts).records = DOMAIN m_records
        /\ \A name \in Names :
              DOMAIN rename(Cur, e, name).records = DOMAIN m_records

\* C14 amended: make_entity adds exactly the record of the handle it issues;
\* attach<T>(e) adds a record (empty name) for e when e has none and removes
\* none; destroy(e) removes exactly e's record; clear removes all; detach and
\* rename neither add nor remove a record; size() is the number of records,
\* all of which belong to issued handles.
C14_RecordLifecycle ==
    /\ DOMAIN m_records \subseteq Issued
    /\ size(Cur) = Cardinality(DOMAIN m_records)
    /\ DOMAIN clear(Cur).records = {}
    /\ \A ts \in TypePacks(Types) \cup {<<>>} :
          DOMAIN make_entity(Cur, m_next_id + 1, ts, "").records
             = DOMAIN m_records \cup {Entity(m_next_id + 1, m_id)}
    /\ \A e \in Handles :
        /\ DOMAIN destroy(Cur, e).records = DOMAIN m_records \ {e}
        /\ \A ts \in DetachPacks :
              DOMAIN detach(Cur, e, ts).records = DOMAIN m_records
        /\ \A name \in Names :
              DOMAIN rename(Cur, e, name).records = DOMAIN m_records
    /\ \A e \in Issued, T \in Types, t \in Values :
        LET r == attach(Cur, e, T, t)
        IN /\ DOMAIN r.records = DOMAIN m_records \cup {e}
           /\ e \notin DOMAIN m_records => r.records[e].name = ""

\* C14 witness: a destroyed handle gets a record again from attach, while
\* detach and rename of it create none.
C14_Witness ==
    \E e \in Issued \ DOMAIN m_records, T \in Types :
        /\ contains(attach(Cur, e, T, 1), e)
        /\ ~contains(detach(Cur, e, <<T>>), e)
        /\ ~contains(rename(Cur, e, "n"), e)

\* C15: attach<T>(E, v) of a type not attached to E, whose set is S, leaves E
\* with S plus T, get<T>(E) = v and every get<U>(E), U in S, as before;
\* detach<T>(E) of an attached T from a set S of more than one type leaves E
\* with S minus T, stored at the last row of the archetype of exactly that
\* set, and every remaining get<U>(E) as before.
C15_MigrationKeepsData ==
    \A e \in DOMAIN m_records :
        LET S == TypesOf(Cur, e)
        IN /\ \A T \in Types \ S, v \in Values :
                LET r == attach(Cur, e, T, v)
                IN /\ TypesOf(r, e) = S \cup {T}
                   /\ find(r, e, T) = {v}
                   /\ \A U \in S : find(r, e, U) = find(Cur, e, U)
           /\ Cardinality(S) > 1 =>
                \A T \in S :
                    LET r == detach(Cur, e, <<T>>)
                        rec == r.records[e]
                    IN /\ r.ret
                       /\ TypesOf(r, e) = S \ {T}
                       /\ rec.arch # nullptr
                       /\ Range(Deref(rec.arch)) = S \ {T}
                       /\ DOMAIN r.map[Deref(rec.arch)].columns = S \ {T}
                       /\ rec.index = ArchSize(r.map[Deref(rec.arch)]) - 1
                       /\ At(r.map[Deref(rec.arch)].entities, rec.index) = e
                       /\ \A U \in S \ {T} : find(r, e, U) = find(Cur, e, U)

\* C15 witness: two entities with different values; one migrates by attach
\* into the archetype the other is stored in, and the other migrates out of
\* it by detach from the first row of a two-row archetype.
C15_Witness ==
    \E e \in DOMAIN m_records, f \in DOMAIN m_records, T \in Types, U \in Types :
        /\ e # f /\ T # U
        /\ TypesOf(Cur, e) = {U} /\ TypesOf(Cur, f) = {T, U}
        /\ find(Cur, e, U) # find(Cur, f, U)
        /\ attach(Cur, e, T, 1).records[e].arch = m_records[f].arch
        /\ LET s1 == attach(Cur, e, T, 1)
               r == detach(s1, f, <<T>>)
           IN /\ s1.records[f].index = 0
              /\ TypesOf(r, f) = {U}
              /\ find(r, f, U) = find(Cur, f, U)

\* C16: detach<T1, T2>(e) with T1 not attached to e returns false, and T2, if
\* it was attached to e, is still attached with its value unchanged.
C16_ShortCircuitKeepsLater ==
    \A e \in Handles, p \in TypePacks(AllTypes) :
        (Len(p) = 2 /\ ~attached(Cur, e, p[1])) =>
            LET r == detach(Cur, e, p)
            IN /\ ~r.ret
               /\ attached(Cur, e, p[2]) =>
                    /\ attached(r, e, p[2])
                    /\ find(r, e, p[2]) = find(Cur, e, p[2])

\* C17: the archetype of an entity depends only on its set of types: the map
\* holds no two archetypes with the same type set, entities with the same
\* non-empty set are stored in the same archetype, make_entity<Types...> with
\* the types in any order uses the same archetype, and so do two attaches in
\* either order.
C17_ArchetypeBySet ==
    /\ \A a \in DOMAIN m_map, b \in DOMAIN m_map :
          (Range(a) = Range(b) \/ DOMAIN m_map[a].columns = DOMAIN m_map[b].columns)
             => a = b
    /\ \A e \in DOMAIN m_records, f \in DOMAIN m_records :
          (TypesOf(Cur, e) = TypesOf(Cur, f) /\ TypesOf(Cur, e) # {})
             => m_records[e].arch = m_records[f].arch
    /\ \A ts \in TypePacks(Types), us \in TypePacks(Types) :
          (ts # us /\ Range(ts) = Range(us)) =>
             LET e == Entity(m_next_id + 1, m_id)
                 r == make_entity(Cur, m_next_id + 1, ts, "")
                 q == make_entity(Cur, m_next_id + 1, us, "")
             IN /\ r.records[e].arch = q.records[e].arch
                /\ DOMAIN r.map = DOMAIN q.map
    /\ \A e \in DOMAIN m_records, T \in Types, U \in Types :
          (T < U /\ m_records[e].arch = nullptr) =>
             LET r == attach(attach(Cur, e, T, 0), e, U, 0)
                 q == attach(attach(Cur, e, U, 0), e, T, 0)
             IN /\ r.records[e].arch = q.records[e].arch
                /\ \A f \in DOMAIN m_records \ {e} :
                      TypesOf(Cur, f) = {T, U} => r.records[e].arch = m_records[f].arch

\* C17 witness: one entity holds only T and another only U; after the first
\* attaches U and the second attaches T both are in one archetype.
C17_Witness ==
    \E e \in DOMAIN m_records, f \in DOMAIN m_records, T \in Types, U \in Types :
        /\ T < U
        /\ TypesOf(Cur, e) = {T} /\ TypesOf(Cur, f) = {U}
        /\ LET r == attach(attach(Cur, e, U, 0), f, T, 0)
           IN /\ r.records[e].arch = r.records[f].arch
              /\ r.records[e].arch = Ptr(<<T, U>>)
              /\ ArchSize(r.map[<<T, U>>]) = 2

\* C18: attach<T>(e) and detach<T>(e) of an attached T, the detach of e's
\* last component included, leave name(e) as it was.
C18_NameKept ==
    \A e \in DOMAIN m_records, T \in Types :
        /\ \A t \in Values :
              attach(Cur, e, T, t).records[e].name = m_records[e].name
        /\ attached(Cur, e, T) =>
              detach(Cur, e, <<T>>).records[e].name = m_records[e].name

\* C19: make_entity, attach, detach and destroy never remove an archetype
\* from the map: an archetype that loses its last entity stays with size 0,
\* and an entity that reaches the type set of an empty archetype is stored in
\* it without a new archetype being made; clear leaves no archetype and
\* size() = 0.
C19_ArchetypesStay ==
    /\ \A ts \in TypePacks(Types) \cup {<<>>} :
          DOMAIN m_map \subseteq DOMAIN make_entity(Cur, m_next_id + 1, ts, "").map
    /\ \A e \in Issued, T \in Types, t \in Values :
          LET r == attach(Cur, e, T, t)
          IN /\ DOMAIN m_map \subseteq DOMAIN r.map
             /\ \A id \in DOMAIN m_map :
                  (ArchSize(m_map[id]) = 0 /\ Range(id) = TypesOf(r, e)) =>
                      /\ r.records[e].arch = Ptr(id)
                      /\ ArchSize(r.map[id]) = 1
                      /\ DOMAIN r.map = DOMAIN m_map
    /\ \A e \in Handles :
          /\ \A ts \in DetachPacks : DOMAIN m_map \subseteq DOMAIN detach(Cur, e, ts).map
          /\ LET r == destroy(Cur, e)
             IN /\ DOMAIN m_map \subseteq DOMAIN r.map
                /\ \A id \in DOMAIN m_map :
                      (e \in DOMAIN m_records /\ m_map[id].entities = <<e>>) =>
                          ArchSize(r.map[id]) = 0
    /\ clear(Cur).map = <<>>
    /\ size(clear(Cur)) = 0

\* C19 witness: the map holds an archetype without entities beside a
\* populated one, an attach stores an entity in the empty one, and clear
\* removes both.
C19_Witness ==
    \E id \in DOMAIN m_map, e \in DOMAIN m_records, T \in Types :
        /\ ArchSize(m_map[id]) = 0
        /\ \E other \in DOMAIN m_map : ArchSize(m_map[other]) > 0
        /\ attach(Cur, e, T, 1).records[e].arch = Ptr(id)
        /\ DOMAIN attach(Cur, e, T, 1).map = DOMAIN m_map
        /\ clear(Cur).map = <<>>

\* C20: while an update of the group is dispatching, the group's data pointer
\* is the caller's data object and every system invoked so far was passed
\* that object; once update has returned the pointer is null, every attached
\* system was invoked exactly once and no other, and the invocations are in
\* non-decreasing order of the systems' order.
C20_UpdateDispatch ==
    /\ pc \in {"idle", "returned"} => m_data = nullptr
    /\ pc \in {"dispatch", "in_system"} => arg # nullptr /\ m_data = arg
    /\ pc = "in_system" => m_entries[Back(calls).sys].sys.m_data = arg
    /\ \A i \in 1..Len(calls) : calls[i].data = arg
    /\ pc = "returned" =>
        /\ \A S \in DOMAIN m_entries :
              Cardinality({i \in 1..Len(calls) : calls[i].sys = S}) = 1
        /\ \A i \in 1..Len(calls) : calls[i].sys \in DOMAIN m_entries
        /\ \A i \in 1..Len(calls), j \in 1..Len(calls) :
              i < j => m_entries[calls[i].sys].order <= m_entries[calls[j].sys].order

\* C20 witness: an update of a group of three systems, two of them with the
\* same order and one with a greater order, has returned.
C20_Witness ==
    /\ pc = "returned"
    /\ Len(calls) = 3
    /\ group_size(m_entries) = 3
    /\ m_entries[calls[1].sys].order = m_entries[calls[2].sys].order
    /\ m_entries[calls[2].sys].order < m_entries[calls[3].sys].order
    /\ m_data = nullptr
====
